---- MODULE Spec2Model ----
(***************************************************************************)
(* Verified-retrieval pipeline and equity-series builder of the            *)
(* zartrad dashboard.                                                      *)
(*                                                                         *)
(*   src/unnamed/part_001  (dataLoader.js)  fetchWithTimeout,              *)
(*                                          fetchAndVerifyByCID            *)
(*   src/unnamed/part_000  (contract.js)    getSnapshotByIndex             *)
(*   src/src/history.js                     isZeroHash, loadSnapshot,      *)
(*                                          buildEquitySeries              *)
(*                                                                         *)
(* A JavaScript string is a sequence of one-character strings.  null and   *)
(* undefined are the one-element sequence Null, whose element is no        *)
(* character; a truthy value that is not a string is NonString.            *)
(***************************************************************************)
EXTENDS Integers, Sequences, FiniteSets, TLC

VARIABLES
    lpc,          \* loadSnapshot: "idle","registry","loop","fetching","returned","threw"
    index,        \* loadSnapshot's argument i
    desc,         \* the descriptor getSnapshotByIndex returned
    expected,     \* loadSnapshot's `expected` (history.js:10)
    attempt,      \* loadSnapshot's loop counter
    lastErr,      \* loadSnapshot's lastErr
    loaded,       \* what loadSnapshot returned, or the error it rejected with
    fpc,          \* fetchAndVerifyByCID: "idle","next","connect","body","returned","threw"
    expectedHex,  \* fetchAndVerifyByCID's second argument
    mirror,       \* index into gateways of the url the for-of loop is at
    fLastErr,     \* fetchAndVerifyByCID's lastErr
    fres,         \* what fetchAndVerifyByCID returned, or the error it threw
    timerArmed,   \* fetchWithTimeout's setTimeout is pending
    requests,     \* history: every fetch(url) issued during the load, in order
    callLog,      \* history: the failures observed in the current fetchAndVerifyByCID call
    attemptLog,   \* history: how each finished attempt of loadSnapshot ended
    delivered,    \* history: the content the body read of the current request delivered
    snaps,        \* buildEquitySeries: its argument
    series,       \* buildEquitySeries: its return value
    epc,          \* buildEquitySeries: "input","built"
    pseries,      \* computePerformance: its argument
    perf,         \* computePerformance: its return value, with the local maxDD
    ppc           \* computePerformance: "input","computed"

loaderVars == <<lpc, index, desc, expected, attempt, lastErr, loaded>>
fetchVars  == <<fpc, expectedHex, mirror, fLastErr, fres, timerArmed>>
histVars   == <<requests, callLog, attemptLog, delivered>>
equityVars == <<snaps, series, epc>>
perfVars   == <<pseries, perf, ppc>>
vars == <<loaderVars, fetchVars, histVars, equityVars, perfVars>>

----------------------------------------------------------------------------
(* Bounds *)

\* number of hex digits of a digest in the model (64 in the program)
HexLen == 2
\* largest registry index loaded
MaxIndex == 1
\* longest input of computePerformance
MaxPoints == 4
\* largest equity of a point given to computePerformance
MaxEquity == 3
\* longest input of buildEquitySeries
MaxSnaps == 3

----------------------------------------------------------------------------
(* JavaScript values and strings *)

Null == <<"null">>
NonString == <<"number">>

Truthy(v) == v # Null /\ v # <<>>

OrEmpty(v) == IF Truthy(v) THEN v ELSE <<>>

OrNull(v) == IF Truthy(v) THEN v ELSE Null

LowerChar(c) ==
    CASE c = "A" -> "a"
      [] c = "B" -> "b"
      [] c = "X" -> "x"
      [] OTHER   -> c

toLowerCase(s) == [i \in DOMAIN s |-> LowerChar(s[i])]

\* s.replace(/^0x/, "")
Strip0x(s) ==
    IF Len(s) >= 2 /\ s[1] = "0" /\ s[2] = "x" THEN SubSeq(s, 3, Len(s)) ELSE s

\* what toHex(new Uint8Array(digest)) can be: lower-case hex, HexLen digits.
\* Two digests are told apart: abab... and baba...
HashOutputs ==
    {[i \in 1..HexLen |-> IF i % 2 = 1 THEN "a" ELSE "b"],
     [i \in 1..HexLen |-> IF i % 2 = 1 THEN "b" ELSE "a"]}

ZeroDigits == [i \in 1..HexLen |-> "0"]

UpperChar(c) ==
    CASE c = "a" -> "A"
      [] c = "b" -> "B"
      [] OTHER   -> c

Upper(s) == [i \in DOMAIN s |-> UpperChar(s[i])]

\* the ways a digest is written: bare or 0x-prefixed, lower or upper case
Spellings(d) == {d, Upper(d), <<"0", "x">> \o d, <<"0", "x">> \o Upper(d)}

----------------------------------------------------------------------------
(* The registry (contract.js) *)

\* content pointers the registry can hold: none, a file CID, a root CID and a path
Pointers == {<<>>, <<"bafyfile">>, <<"bafyroot", "/", "snapshot.canonical.json">>}

\* bytes32 values as the contract binding renders them
RegistryDigests ==
    {<<"0", "x">> \o ZeroDigits}
        \cup {<<"0", "x">> \o d : d \in HashOutputs}
        \cup {<<"0", "x">> \o Upper(d) : d \in HashOutputs}

\* what contract.getSnapshot(BigInt(index)) resolves to
ContractSnapshots ==
    [cid : Pointers, sha256File : RegistryDigests, timestamp : {1700}]

getSnapshotByIndex(raw) ==
    [cid        |-> raw.cid,
     sha256File |-> toLowerCase(raw.sha256File),
     timestamp  |-> raw.timestamp * 1000]

----------------------------------------------------------------------------
(* dataLoader.js: fetchAndVerifyByCID *)

\* pointer.includes("/")
isPath(pointer) == \E i \in DOMAIN pointer : pointer[i] = "/"

gateways(pointer) ==
    IF isPath(pointer)
    THEN << <<"https://w3s.link/ipfs/">> \o pointer,
            <<"https://nftstorage.link/ipfs/">> \o pointer,
            <<"https://dweb.link/ipfs/">> \o pointer >>
    ELSE << <<"https://">> \o pointer \o <<".ipfs.w3s.link">>,
            <<"https://">> \o pointer \o <<".ipfs.nftstorage.link">>,
            <<"https://">> \o pointer \o <<".ipfs.dweb.link">> >>

\* const expected = (expectedHex || "").toLowerCase().replace(/^0x/, "")
NormalizeExpected(hex) == Strip0x(toLowerCase(OrEmpty(hex)))

\* const inFile = (json.sha256 || "").toLowerCase()
InFile(json) == toLowerCase(OrEmpty(json.sha256))

\* An error value.  `at` is the mirror (index into gateways) during whose
\* iteration the error object was created or caught; 0 when outside the loop.
Err(kind, at) == [kind |-> kind, at |-> at]

NoErr == Err("undefined", 0)

\* What a response body decodes to.  kind: "html" (starts with <!DOCTYPE or
\* <html), "garbage" (JSON.parse throws), "null" (the JSON value null),
\* "falsy" (0, false, ""), "scalar" (a truthy number, string or true),
\* "object" (an object or array).  sha256 is the parsed value's sha256
\* property; fileHash and canonicalHash are the SHA-256 digests the code
\* computes of the bytes and of the canonical form.
EmbeddedValues ==
    {Null, <<>>, NonString} \cup UNION {Spellings(d) : d \in HashOutputs}

Contents ==
    [kind : {"html", "garbage", "null"}, sha256 : {Null},
     fileHash : HashOutputs, canonicalHash : HashOutputs]
        \cup [kind : {"falsy", "scalar"}, sha256 : {Null},
              fileHash : HashOutputs, canonicalHash : HashOutputs]
        \cup [kind : {"object"}, sha256 : EmbeddedValues,
              fileHash : HashOutputs, canonicalHash : HashOutputs]

\* lines 59-76: the kind of failure examining the body raises, or "none"
BodyFailure(c) ==
    CASE c.kind = "html"      -> "html"
      [] c.kind = "garbage"   -> "syntax"
      [] c.kind = "null"      -> "type"
      [] c.sha256 = NonString -> "type"
      [] OTHER                -> "none"

\* variant of VerifyOk: the embedded digest is consulted before the registry's
VerifyOk_EmbeddedFirst(exp, inFile, fileHash, canonicalHash) ==
    IF Truthy(inFile) /\ inFile = fileHash THEN TRUE
    ELSE IF Truthy(inFile) /\ inFile = canonicalHash THEN TRUE
    ELSE IF Truthy(exp) THEN fileHash = exp
    ELSE FALSE

\* variant of VerifyOk: the canonical digest is accepted against the registry's
VerifyOk_CanonicalToo(exp, inFile, fileHash, canonicalHash) ==
    IF Truthy(exp) THEN fileHash = exp \/ canonicalHash = exp
    ELSE IF Truthy(inFile) /\ inFile = fileHash THEN TRUE
    ELSE IF Truthy(inFile) /\ inFile = canonicalHash THEN TRUE
    ELSE FALSE

\* lines 78-87
VerifyOk(exp, inFile, fileHash, canonicalHash) ==
    IF Truthy(exp) THEN fileHash = exp
    ELSE IF Truthy(inFile) /\ inFile = fileHash THEN TRUE
    ELSE IF Truthy(inFile) /\ inFile = canonicalHash THEN TRUE
    ELSE FALSE

VerifyMode(exp, inFile, fileHash, canonicalHash) ==
    IF Truthy(exp) THEN "on-chain-file-bytes"
    ELSE IF Truthy(inFile) /\ inFile = fileHash THEN "file-bytes"
    ELSE IF Truthy(inFile) /\ inFile = canonicalHash THEN "canonical-minus-sha256"
    ELSE ""

\* lines 76-98: the object fetchAndVerifyByCID returns
Verify(hex, json, url) ==
    LET exp    == NormalizeExpected(hex)
        inFile == InFile(json)
    IN  [ok               |-> VerifyOk(exp, inFile, json.fileHash, json.canonicalHash),
         mode             |-> VerifyMode(exp, inFile, json.fileHash, json.canonicalHash),
         sha256_onchain   |-> OrNull(hex),
         sha256_expected  |-> OrNull(inFile),
         sha256_file      |-> json.fileHash,
         sha256_canonical |-> json.canonicalHash,
         json             |-> json,
         url              |-> url]

\* line 17: r?.json is truthy
JsonTruthy(json) == json.kind \in {"scalar", "object"}

\* variant of Snapshot: verified is set to true, as fetchAllSnapshots sets it
Snapshot_AlwaysVerified(d, r) ==
    [kind |-> "snapshot", cid |-> d.cid, sha256File |-> d.sha256File,
     timestamp |-> d.timestamp, json |-> r.json, verified |-> TRUE]

\* line 17: the object loadSnapshot returns
Snapshot(d, r) ==
    [kind |-> "snapshot", cid |-> d.cid, sha256File |-> d.sha256File,
     timestamp |-> d.timestamp, json |-> r.json, verified |-> r.ok]

Pointer == desc.cid

NumMirrors == Len(gateways(Pointer))

NoResult == [kind |-> "none"]

NoBody == [kind |-> "none", sha256 |-> Null, fileHash |-> <<>>, canonicalHash |-> <<>>]

\* the call fetchAndVerifyByCID(pointer, hex): line 33, then the loop is entered
EnterFetch(pointer, hex) ==
    /\ expectedHex' = hex
    /\ callLog' = <<>>
    /\ delivered' = NoBody
    /\ timerArmed' = FALSE
    /\ fLastErr' = NoErr
    /\ mirror' = 1
    /\ IF ~Truthy(pointer)
       THEN /\ fpc' = "threw"
            /\ fres' = [kind |-> "error", err |-> Err("No CID provided", 0)]
       ELSE /\ fpc' = "next"
            /\ fres' = NoResult

\* variant of MirrorFailed: the first failure is kept (lastErr ??= e)
MirrorFailed_KeepFirst(e) ==
    /\ fLastErr' = IF fLastErr = NoErr THEN e ELSE fLastErr
    /\ callLog' = Append(callLog, mirror)
    /\ mirror' = mirror + 1
    /\ fpc' = "next"
    /\ timerArmed' = FALSE
    /\ UNCHANGED <<expectedHex, fres, requests>>

\* an iteration of the for-of loop ended in failure with error e
MirrorFailed(e) ==
    /\ fLastErr' = e
    /\ callLog' = Append(callLog, mirror)
    /\ mirror' = mirror + 1
    /\ fpc' = "next"
    /\ timerArmed' = FALSE
    /\ UNCHANGED <<expectedHex, fres, requests>>

\* lines 51-53, 5-9: the loop takes the next url; fetchWithTimeout arms its
\* timer and issues fetch(url)
FetchNextMirror ==
    /\ fpc = "next"
    /\ mirror <= NumMirrors
    /\ fpc' = "connect"
    /\ timerArmed' = TRUE
    /\ requests' = Append(requests, [attempt |-> attempt, mirror |-> mirror,
                                     url |-> gateways(Pointer)[mirror]])
    /\ delivered' = NoBody
    /\ UNCHANGED <<expectedHex, mirror, fLastErr, fres, callLog>>
    /\ UNCHANGED <<loaderVars, attemptLog, equityVars, perfVars>>

\* line 7: the timer expires while fetch(url) is pending: ctl.abort() rejects
\* it with an AbortError, which the catch of line 100 takes
TimerFires ==
    /\ fpc = "connect"
    /\ timerArmed
    /\ MirrorFailed(Err("abort", mirror))
    /\ UNCHANGED <<loaderVars, attemptLog, delivered, equityVars, perfVars>>

\* fetch(url) rejects (no connection): line 10 clears the timer, line 100 catches
FetchRejects ==
    /\ fpc = "connect"
    /\ MirrorFailed(Err("network", mirror))
    /\ UNCHANGED <<loaderVars, attemptLog, delivered, equityVars, perfVars>>

\* fetch(url) resolves with a response: line 10 clears the timer; line 54
\* rejects a status that is not a success, else line 56 awaits the body
ResponseArrives(statusOk) ==
    /\ fpc = "connect"
    /\ IF statusOk
       THEN /\ fpc' = "body"
            /\ timerArmed' = FALSE
            /\ UNCHANGED <<expectedHex, mirror, fLastErr, fres, requests, callLog>>
       ELSE MirrorFailed(Err("status", mirror))
    /\ UNCHANGED <<loaderVars, attemptLog, delivered, equityVars, perfVars>>

\* res.arrayBuffer() rejects: line 100 catches
BodyRejects ==
    /\ fpc = "body"
    /\ MirrorFailed(Err("body", mirror))
    /\ UNCHANGED <<loaderVars, attemptLog, delivered, equityVars, perfVars>>

\* res.arrayBuffer() resolves with content c: lines 57-98.  When the call
\* returns, loadSnapshot resumes at line 17 with the result r: it returns the
\* snapshot if r.json is truthy and goes round its loop if not.  A call that
\* has returned leaves no locals behind.
BodyArrives(c) ==
    /\ fpc = "body"
    /\ delivered' = c
    /\ IF BodyFailure(c) # "none"
       THEN /\ MirrorFailed(Err(BodyFailure(c), mirror))
            /\ UNCHANGED <<loaderVars, attemptLog>>
       ELSE /\ fpc' = "returned"
            /\ fres' = [kind |-> "result",
                        r |-> Verify(expectedHex, c, gateways(Pointer)[mirror])]
            /\ fLastErr' = NoErr
            /\ UNCHANGED <<expectedHex, mirror, timerArmed, requests, callLog>>
            /\ IF JsonTruthy(c)
               THEN /\ lpc' = "returned"
                    /\ loaded' = Snapshot(desc, fres'.r)
                    /\ lastErr' = NoErr
                    /\ attemptLog' = Append(attemptLog, "snapshot")
                    /\ UNCHANGED attempt
               ELSE /\ lpc' = "loop"
                    /\ attempt' = attempt + 1
                    /\ attemptLog' = Append(attemptLog, "no json")
                    /\ UNCHANGED <<loaded, lastErr>>
            /\ UNCHANGED <<index, desc, expected>>
    /\ UNCHANGED <<equityVars, perfVars>>

\* variant of FetchExhausted: a new error is thrown whatever was observed
FetchExhausted_GenericError ==
    /\ fpc = "next"
    /\ mirror > NumMirrors
    /\ fpc' = "threw"
    /\ fres' = [kind |-> "error", err |-> Err("All IPFS gateways failed", 0)]
    /\ UNCHANGED <<expectedHex, mirror, fLastErr, timerArmed, requests, callLog>>
    /\ UNCHANGED <<loaderVars, attemptLog, delivered, equityVars, perfVars>>

\* line 104: the loop is over
FetchExhausted ==
    /\ fpc = "next"
    /\ mirror > NumMirrors
    /\ fpc' = "threw"
    /\ fres' = [kind |-> "error",
                err |-> IF fLastErr # NoErr THEN fLastErr
                        ELSE Err("All IPFS gateways failed", 0)]
    /\ UNCHANGED <<expectedHex, mirror, fLastErr, timerArmed, requests, callLog>>
    /\ UNCHANGED <<loaderVars, attemptLog, delivered, equityVars, perfVars>>

----------------------------------------------------------------------------
(* history.js: loadSnapshot *)

\* the loop bound of `for (let attempt = 1; attempt <= 3; attempt++)`
MaxAttempts == 3

\* variant of isZeroHash: only a missing digest counts as absent
isZeroHash_OnlyMissing(h) == ~Truthy(h)

\* const isZeroHash = (h) => !h || /^0x0+$/i.test(h)
isZeroHash(h) ==
    \/ ~Truthy(h)
    \/ /\ Len(h) >= 3
       /\ h[1] = "0"
       /\ LowerChar(h[2]) = "x"
       /\ \A i \in 3..Len(h) : h[i] = "0"

NoDesc == [cid |-> <<>>, sha256File |-> Null, timestamp |-> 0]

NotLoaded == [kind |-> "none"]

\* loadSnapshot(i) is called: line 9 awaits getSnapshotByIndex(i)
LoadStart(i) ==
    /\ lpc = "idle"
    /\ lpc' = "registry"
    /\ index' = i
    /\ UNCHANGED <<desc, expected, attempt, lastErr, loaded>>
    /\ UNCHANGED <<fetchVars, histVars, equityVars, perfVars>>

\* line 9 resolves; lines 10-13
RegistryReturns(raw) ==
    /\ lpc = "registry"
    /\ desc' = getSnapshotByIndex(raw)
    /\ expected' = IF isZeroHash(desc'.sha256File) THEN Null ELSE desc'.sha256File
    /\ attempt' = 1
    /\ lpc' = "loop"
    /\ UNCHANGED <<index, lastErr, loaded>>
    /\ UNCHANGED <<fetchVars, histVars, equityVars, perfVars>>

\* line 9 rejects (the provider fails, the contract reverts): nothing in
\* loadSnapshot catches it
RegistryThrows ==
    /\ lpc = "registry"
    /\ lpc' = "threw"
    /\ loaded' = [kind |-> "error", err |-> Err("registry", 0)]
    /\ UNCHANGED <<index, desc, expected, attempt, lastErr>>
    /\ UNCHANGED <<fetchVars, histVars, equityVars, perfVars>>

\* lines 14-16: the loop test holds and fetchAndVerifyByCID(cid, expected) is called
AttemptStart ==
    /\ lpc = "loop"
    /\ attempt <= MaxAttempts
    /\ lpc' = "fetching"
    /\ EnterFetch(desc.cid, expected)
    /\ UNCHANGED <<index, desc, expected, attempt, lastErr, loaded>>
    /\ UNCHANGED <<requests, attemptLog, equityVars, perfVars>>

\* variant of AttemptThrew: the first failed attempt ends the load
AttemptThrew_NoRetry ==
    /\ lpc = "fetching"
    /\ fpc = "threw"
    /\ fpc' = "idle"
    /\ lastErr' = fres.err
    /\ lpc' = "returned"
    /\ loaded' = [kind |-> "null"]
    /\ attemptLog' = Append(attemptLog, "threw")
    /\ UNCHANGED <<index, desc, expected, attempt>>
    /\ UNCHANGED <<expectedHex, mirror, fLastErr, fres, timerArmed>>
    /\ UNCHANGED <<requests, callLog, delivered, equityVars, perfVars>>

\* lines 18-20: the call threw e
AttemptThrew ==
    /\ lpc = "fetching"
    /\ fpc = "threw"
    /\ fpc' = "idle"
    /\ lastErr' = fres.err
    /\ attempt' = attempt + 1
    /\ lpc' = "loop"
    /\ attemptLog' = Append(attemptLog, "threw")
    /\ UNCHANGED <<index, desc, expected, loaded>>
    /\ UNCHANGED <<expectedHex, mirror, fLastErr, fres, timerArmed>>
    /\ UNCHANGED <<requests, callLog, delivered, equityVars, perfVars>>

\* lines 22-23: the loop is over
GiveUp ==
    /\ lpc = "loop"
    /\ attempt > MaxAttempts
    /\ lpc' = "returned"
    /\ loaded' = [kind |-> "null"]
    /\ UNCHANGED <<index, desc, expected, attempt, lastErr>>
    /\ UNCHANGED <<fetchVars, histVars, equityVars, perfVars>>

----------------------------------------------------------------------------
(* history.js: buildEquitySeries *)

\* A JavaScript number: NaN, or an integer
Num(n) == [nan |-> FALSE, n |-> n]

NaN == [nan |-> TRUE, n |-> 0]

\* NetLiquidation.value as a snapshot carries it: absent (undefined or null),
\* a string that is no number, or a number
Absent == [t |-> "absent", n |-> 0]

NotNumeric == [t |-> "string", n |-> 0]

Value(n) == [t |-> "number", n |-> n]

NetLiqValues == {Absent, NotNumeric, Value(-1), Value(1), Value(2)}

\* s.json?.payload?.accounts as the sequence of its entries, in key order
AccountMaps ==
    {<<>>}
        \cup {<< [key |-> "All", value |-> Value(9)], [key |-> "U1", value |-> v] >> :
                v \in NetLiqValues}

\* s.json?.as_of_utc: absent, or an instant in hours since the epoch (UTC)
NoInstant == [t |-> "absent", h |-> 0]

Instant(h) == [t |-> "instant", h |-> h]

AsOfValues == {NoInstant, Instant(4), Instant(5), Instant(29)}

EquitySnapshots == [as_of_utc : AsOfValues, accounts : AccountMaps]

RECURSIVE SnapSeqs(_)
SnapSeqs(n) ==
    IF n = 0 THEN {<<>>}
    ELSE LET shorter == SnapSeqs(n - 1)
         IN  shorter \cup {Append(q, x) : q \in {r \in shorter : Len(r) = n - 1},
                                          x \in EquitySnapshots}

\* new Date(s.json?.as_of_utc || 0), in hours since the epoch
InstantOf(asOf) == IF asOf.t = "instant" THEN asOf.h ELSE 0

\* America/New_York is five hours behind UTC at the instants modelled
NYOffsetHours == 5

\* Intl.DateTimeFormat("en-CA", {timeZone: "America/New_York", ...}).format:
\* the text YYYY-MM-DD as <<year, month, day>>, for the days around the epoch
FormatNY(hours) ==
    LET day == (hours - NYOffsetHours) \div 24
    IN  IF day < 0 THEN <<1969, 12, 32 + day>> ELSE <<1970, 1, 1 + day>>

\* a.localeCompare(b) < 0 for two such texts: left to right
DateBefore(a, b) ==
    \/ a[1] < b[1]
    \/ a[1] = b[1] /\ a[2] < b[2]
    \/ a[1] = b[1] /\ a[2] = b[2] /\ a[3] < b[3]

\* Object.keys(accounts).find(k => k !== "All"): the index of the entry, 0 if none
AcctKey(accounts) ==
    LET hits == {i \in DOMAIN accounts : accounts[i].key # "All"}
    IN  IF hits = {} THEN 0 ELSE CHOOSE i \in hits : \A j \in hits : i <= j

\* Number(accounts[acctKey]?.NetLiquidation?.value ?? 0)
NetLiq(accounts) ==
    LET k == AcctKey(accounts)
        v == IF k = 0 THEN Absent ELSE accounts[k].value
    IN  CASE v.t = "absent" -> Num(0)
          [] v.t = "string" -> NaN
          [] OTHER          -> Num(v.n)

\* lines 45-52: the row of one snapshot
Row(s) == [date |-> FormatNY(InstantOf(s.as_of_utc)), equity |-> NetLiq(s.accounts)]

\* variant of Positive: d.equity >= 0
Positive_NonNegative(x) == ~x.nan /\ x.n >= 0

\* line 53: d.equity > 0
Positive(x) == ~x.nan /\ x.n > 0

Rows(input) ==
    LET all == [i \in DOMAIN input |-> Row(input[i])]
    IN  SelectSeq(all, LAMBDA d : Positive(d.equity))

\* variant of MapSet: a date already present keeps its row
MapSet_FirstWins(m, r) ==
    IF \E i \in DOMAIN m : m[i].date = r.date THEN m ELSE Append(m, r)

\* byDate.set(r.date, r): a Map keeps a key at the place of its first insertion
MapSet(m, r) ==
    IF \E i \in DOMAIN m : m[i].date = r.date
    THEN [i \in DOMAIN m |-> IF m[i].date = r.date THEN r ELSE m[i]]
    ELSE Append(m, r)

\* lines 56-57; Array.from(byDate.values())
RECURSIVE ByDate(_)
ByDate(rows) ==
    IF rows = <<>> THEN <<>>
    ELSE MapSet(ByDate(SubSeq(rows, 1, Len(rows) - 1)), rows[Len(rows)])

\* insertion of r into an ascending sequence, after the elements not after it
RECURSIVE InsertSorted(_, _)
InsertSorted(sorted, r) ==
    IF sorted = <<>> THEN <<r>>
    ELSE IF DateBefore(r.date, sorted[1].date) THEN <<r>> \o sorted
    ELSE <<sorted[1]>> \o InsertSorted(Tail(sorted), r)

\* .sort((a,b) => a.date.localeCompare(b.date)): a stable sort
RECURSIVE SortByDate(_)
SortByDate(rows) ==
    IF rows = <<>> THEN <<>>
    ELSE InsertSorted(SortByDate(SubSeq(rows, 1, Len(rows) - 1)), rows[Len(rows)])

buildEquitySeries(input) == SortByDate(ByDate(Rows(input)))

\* the call buildEquitySeries(snaps)
BuildEquitySeries ==
    /\ epc = "input"
    /\ epc' = "built"
    /\ series' = buildEquitySeries(snaps)
    /\ UNCHANGED <<snaps, loaderVars, fetchVars, histVars, perfVars>>

----------------------------------------------------------------------------
(* history.js: computePerformance *)

\* JavaScript numbers of computePerformance are fractions num/den in lowest
\* terms, den > 0
RECURSIVE Gcd(_, _)
Gcd(a, b) == IF b = 0 THEN a ELSE Gcd(b, a % b)

Abs(n) == IF n < 0 THEN -n ELSE n

Frac(n, d) ==
    LET g == Gcd(Abs(n), Abs(d))
        sgn == IF d < 0 THEN -1 ELSE 1
    IN  [num |-> sgn * (n \div g), den |-> sgn * (d \div g)]

FracOf(n) == [num |-> n, den |-> 1]

FAdd(x, y) == Frac(x.num * y.den + y.num * x.den, x.den * y.den)

FSub(x, y) == Frac(x.num * y.den - y.num * x.den, x.den * y.den)

FMul(x, y) == Frac(x.num * y.num, x.den * y.den)

\* x / y for y # 0
FDiv(x, y) == Frac(x.num * y.den, x.den * y.num)

FLess(x, y) == x.num * y.den < y.num * x.den

\* Math.max(x, y)
FMax(x, y) == IF FLess(x, y) THEN y ELSE x

\* the points given to computePerformance: {date, equity}, equity > 0
PerfDates == {FormatNY(0), FormatNY(5), FormatNY(29)}

PerfPoints == [date : PerfDates, equity : 1..MaxEquity]

RECURSIVE PointSeqs(_)
PointSeqs(n) ==
    IF n = 0 THEN {<<>>}
    ELSE LET shorter == PointSeqs(n - 1)
         IN  shorter \cup {Append(q, x) : q \in {r \in shorter : Len(r) = n - 1},
                                          x \in PerfPoints}

\* the value of vami[0]
VamiStart == 1000

\* lines 78-83
Returns(s) ==
    [i \in DOMAIN s |->
        [date |-> s[i].date,
         ret  |-> IF i = 1 THEN FracOf(0)
                  ELSE FSub(FDiv(FracOf(s[i].equity), FracOf(s[i - 1].equity)),
                            FracOf(1))]]

\* lines 86-91: vami[0..n-1]
RECURSIVE Vami(_, _, _)
Vami(s, returns, n) ==
    IF n = 0 THEN <<>>
    ELSE IF n = 1 THEN << [date |-> s[1].date, v |-> FracOf(VamiStart)] >>
    ELSE LET before == Vami(s, returns, n - 1)
             prev   == before[n - 1].v
         IN  Append(before,
                    [date |-> s[n].date,
                     v    |-> FMul(prev, FAdd(FracOf(1), returns[n].ret))])

\* variant of DrawdownLoop: dd <= maxDD.dd, the last of equal drawdowns is kept
RECURSIVE DrawdownLoop_LastWins(_, _, _)
DrawdownLoop_LastWins(s, vami, n) ==
    IF n = 0
    THEN [drawdown |-> <<>>, peak |-> vami[1].v,
          maxDD |-> [dd |-> FracOf(0), date |-> s[1].date]]
    ELSE LET st   == DrawdownLoop_LastWins(s, vami, n - 1)
             peak == FMax(st.peak, vami[n].v)
             dd   == FSub(FDiv(vami[n].v, peak), FracOf(1))
         IN  [drawdown |-> Append(st.drawdown, [date |-> vami[n].date, dd |-> dd]),
              peak     |-> peak,
              maxDD    |-> IF ~FLess(st.maxDD.dd, dd)
                           THEN [dd |-> dd, date |-> vami[n].date]
                           ELSE st.maxDD]

\* lines 94-102: the loop's state after its first n iterations
RECURSIVE DrawdownLoop(_, _, _)
DrawdownLoop(s, vami, n) ==
    IF n = 0
    THEN [drawdown |-> <<>>, peak |-> vami[1].v,
          maxDD |-> [dd |-> FracOf(0), date |-> s[1].date]]
    ELSE LET st   == DrawdownLoop(s, vami, n - 1)
             peak == FMax(st.peak, vami[n].v)
             dd   == FSub(FDiv(vami[n].v, peak), FracOf(1))
         IN  [drawdown |-> Append(st.drawdown, [date |-> vami[n].date, dd |-> dd]),
              peak     |-> peak,
              maxDD    |-> IF FLess(dd, st.maxDD.dd)
                           THEN [dd |-> dd, date |-> vami[n].date]
                           ELSE st.maxDD]

\* the object {} ; also the value of a local that was never assigned
EmptyObject == <<>>

NoPerf == [series |-> <<>>, returns |-> <<>>, vami |-> <<>>, drawdown |-> <<>>,
           stats |-> EmptyObject, maxDD |-> EmptyObject]

\* lines 69-135.  Of stats, the fields that are ratios of equities are kept;
\* annual_return, annual_vol, sharpe (powers and square roots) and ytd (the
\* clock) are left out.  maxDD is the local of lines 96-101.
computePerformance(input) ==
    IF input = <<>>
    THEN [series |-> <<>>, returns |-> <<>>, vami |-> <<>>, drawdown |-> <<>>,
          stats |-> EmptyObject, maxDD |-> EmptyObject]
    ELSE LET s       == SortByDate(input)
             returns == Returns(s)
             vami    == Vami(s, returns, Len(s))
             loop    == DrawdownLoop(s, vami, Len(vami))
         IN  [series   |-> s,
              returns  |-> returns,
              vami     |-> vami,
              drawdown |-> loop.drawdown,
              stats    |-> [since_inception |->
                                FSub(FDiv(FracOf(s[Len(s)].equity), FracOf(s[1].equity)),
                                     FracOf(1)),
                            max_drawdown |-> loop.maxDD.dd,
                            days |-> Len(s) - 1],
              maxDD    |-> loop.maxDD]

\* the call computePerformance(pseries)
ComputePerformance ==
    /\ ppc = "input"
    /\ ppc' = "computed"
    /\ perf' = computePerformance(pseries)
    /\ UNCHANGED <<pseries, loaderVars, fetchVars, histVars, equityVars>>

Init ==
    /\ lpc = "idle"
    /\ index = 0
    /\ desc = NoDesc
    /\ expected = Null
    /\ attempt = 0
    /\ lastErr = NoErr
    /\ loaded = NotLoaded
    /\ fpc = "idle"
    /\ expectedHex = Null
    /\ mirror = 0
    /\ fLastErr = NoErr
    /\ fres = NoResult
    /\ timerArmed = FALSE
    /\ requests = <<>>
    /\ callLog = <<>>
    /\ attemptLog = <<>>
    /\ delivered = NoBody
    /\ snaps = <<>>
    /\ series = <<>>
    /\ epc = "unused"
    /\ pseries = <<>>
    /\ perf = NoPerf
    /\ ppc = "unused"

Next ==
    \/ \E i \in 0..MaxIndex : LoadStart(i)
    \/ \E raw \in ContractSnapshots : RegistryReturns(raw)
    \/ RegistryThrows
    \/ AttemptStart
    \/ FetchNextMirror
    \/ TimerFires
    \/ FetchRejects
    \/ \E statusOk \in BOOLEAN : ResponseArrives(statusOk)
    \/ BodyRejects
    \/ \E c \in Contents : BodyArrives(c)
    \/ FetchExhausted
    \/ AttemptThrew
    \/ GiveUp

Spec == Init /\ [][Next]_vars

EquityInit ==
    /\ snaps \in SnapSeqs(MaxSnaps)
    /\ series = <<>>
    /\ epc = "input"
    /\ pseries = <<>>
    /\ perf = NoPerf
    /\ ppc = "unused"
    /\ lpc = "unused"
    /\ index = 0
    /\ desc = NoDesc
    /\ expected = Null
    /\ attempt = 0
    /\ lastErr = NoErr
    /\ loaded = NotLoaded
    /\ fpc = "unused"
    /\ expectedHex = Null
    /\ mirror = 0
    /\ fLastErr = NoErr
    /\ fres = NoResult
    /\ timerArmed = FALSE
    /\ requests = <<>>
    /\ callLog = <<>>
    /\ attemptLog = <<>>
    /\ delivered = NoBody

EquityNext == BuildEquitySeries

EquitySpec == EquityInit /\ [][EquityNext]_vars

PerfInit ==
    /\ pseries \in PointSeqs(MaxPoints)
    /\ perf = NoPerf
    /\ ppc = "input"
    /\ snaps = <<>>
    /\ series = <<>>
    /\ epc = "unused"
    /\ lpc = "unused"
    /\ index = 0
    /\ desc = NoDesc
    /\ expected = Null
    /\ attempt = 0
    /\ lastErr = NoErr
    /\ loaded = NotLoaded
    /\ fpc = "unused"
    /\ expectedHex = Null
    /\ mirror = 0
    /\ fLastErr = NoErr
    /\ fres = NoResult
    /\ timerArmed = FALSE
    /\ requests = <<>>
    /\ callLog = <<>>
    /\ attemptLog = <<>>
    /\ delivered = NoBody

PerfNext == ComputePerformance

PerfSpec == PerfInit /\ [][PerfNext]_vars

----------------------------------------------------------------------------
(* Properties *)

\* two digest texts that differ at most in letter case and in a leading 0x
SameDigest(x, y) == Strip0x(toLowerCase(x)) = Strip0x(toLowerCase(y))

\* the all-zero bytes32
ZeroRegistryDigest == <<"0", "x">> \o ZeroDigits

\* C1: when a non-empty expected digest from the registry is supplied, the
\* result of fetchAndVerifyByCID has the on-chain mode and has ok = true
\* exactly when the digest of the raw bytes equals the expected digest; the
\* embedded digest does not enter.
C1_OnChainAuthoritative ==
    (fpc = "returned" /\ Truthy(expectedHex)) =>
        /\ fres.r.mode = "on-chain-file-bytes"
        /\ fres.r.ok <=> SameDigest(fres.r.json.fileHash, expectedHex)

\* C1's case: the embedded digest equals the raw digest, the registry digest
\* differs from it, and the result is negative
C1_Witness ==
    /\ fpc = "returned"
    /\ Truthy(expectedHex)
    /\ fres.r.json.kind = "object"
    /\ fres.r.json.sha256 = fres.r.json.fileHash
    /\ ~SameDigest(fres.r.json.fileHash, expectedHex)
    /\ ~fres.r.ok

\* the requests of a load in which every mirror failed in all three attempts
NineRequests ==
    [j \in 1..9 |->
        [attempt |-> ((j - 1) \div 3) + 1,
         mirror  |-> ((j - 1) % 3) + 1,
         url     |-> gateways(Pointer)[((j - 1) % 3) + 1]]]

\* C2: a load whose mirror requests all fail makes exactly three attempts of
\* three requests each, mirror by mirror in order (nine requests, and never
\* more in any load), each attempt ends with fetchAndVerifyByCID throwing the
\* last failure it observed, and loadSnapshot returns null.
C2_AllMirrorsFail ==
    /\ Len(requests) <= 9
    /\ (fpc = "threw" /\ callLog # <<>>) =>
            /\ fres.err = fLastErr
            /\ fres.err.at = callLog[Len(callLog)]
    /\ (/\ lpc = "returned"
        /\ requests # <<>>
        /\ \A i \in DOMAIN attemptLog : attemptLog[i] = "threw") =>
            /\ loaded.kind = "null"
            /\ attemptLog = <<"threw", "threw", "threw">>
            /\ requests = NineRequests

\* C2's case: all nine requests were answered with a status that is no success
C2_Witness ==
    /\ lpc = "returned"
    /\ loaded.kind = "null"
    /\ Len(requests) = 9
    /\ lastErr = Err("status", 3)

\* C3: loadSnapshot ends by returning a snapshot or null; it never rejects.
C3_NeverThrows == lpc # "threw"

\* C4: within one call of fetchAndVerifyByCID the mirrors are requested in
\* list order, mirror k only after mirrors 1..k-1 each failed; the call returns
\* the result of the first mirror that passes, reports its url and requests
\* no mirror after it; when all three fail it throws the failure observed at
\* the last mirror.
C4_MirrorsInOrder ==
    /\ \A j \in DOMAIN requests :
            /\ requests[j].url = gateways(Pointer)[requests[j].mirror]
            /\ IF j > 1 /\ requests[j - 1].attempt = requests[j].attempt
               THEN requests[j].mirror = requests[j - 1].mirror + 1
               ELSE requests[j].mirror = 1
    /\ fpc \in {"connect", "body", "returned"} =>
            /\ callLog = [k \in 1..(mirror - 1) |-> k]
            /\ requests[Len(requests)].mirror = mirror
    /\ fpc = "returned" => fres.r.url = gateways(Pointer)[mirror]
    /\ (fpc = "threw" /\ Truthy(Pointer)) =>
            /\ callLog = <<1, 2, 3>>
            /\ fres.err.at = 3
            /\ fres.err.kind \in {"status", "html", "network", "abort", "body",
                                  "syntax", "type"}

\* C4's case: the third mirror answers after the first two failed
C4_Witness ==
    /\ fpc = "returned"
    /\ mirror = 3
    /\ callLog = <<1, 2>>
    /\ fres.r.url = gateways(Pointer)[3]

\* a record (sha256 absent or a string) that matches nothing
Mismatch(c, hex) ==
    /\ c.kind = "object"
    /\ c.sha256 # NonString
    /\ Truthy(hex) => ~SameDigest(c.fileHash, hex)
    /\ ~SameDigest(OrEmpty(c.sha256), c.fileHash)
    /\ ~SameDigest(OrEmpty(c.sha256), c.canonicalHash)

C6_ZeroDigestIsAbsent ==
    (lpc \in {"loop", "fetching", "returned"} /\ desc.sha256File = ZeroRegistryDigest) =>
        /\ expected = Null
        /\ fpc # "idle" => expectedHex = Null
        /\ fpc = "returned" =>
            LET c   == fres.r.json
                emb == InFile(c)
            IN  /\ fres.r.mode # "on-chain-file-bytes"
                /\ fres.r.sha256_onchain = Null
                /\ fres.r.ok <=> (Truthy(emb) /\ emb \in {c.fileHash, c.canonicalHash})
                /\ fres.r.mode =
                      IF Truthy(emb) /\ emb = c.fileHash THEN "file-bytes"
                      ELSE IF Truthy(emb) /\ emb = c.canonicalHash
                           THEN "canonical-minus-sha256"
                      ELSE ""

\* C6's case: the registry digest is all-zero and the record verifies against
\* its canonical digest on the second attempt
C6_Witness ==
    /\ desc.sha256File = ZeroRegistryDigest
    /\ fpc = "returned"
    /\ attempt = 2
    /\ fres.r.mode = "canonical-minus-sha256"
    /\ fres.r.ok

\* the other ways of writing a digest text
Respellings(v) ==
    IF Truthy(v) /\ v # NonString THEN Spellings(Strip0x(toLowerCase(v))) ELSE {v}

\* C7: the outcome of verification does not change when the expected digest
\* or the embedded digest is written in another letter case or with or without
\* the 0x prefix.
C7_SpellingInsensitive ==
    fpc = "returned" =>
        /\ \A hex \in Respellings(expectedHex) :
                Verify(hex, fres.r.json, fres.r.url).ok = fres.r.ok
        /\ \A emb \in Respellings(fres.r.json.sha256) :
                Verify(expectedHex, [fres.r.json EXCEPT !.sha256 = emb], fres.r.url).ok
                    = fres.r.ok

\* C8: a mirror's request, while it has not completed (connection, response
\* or payload delivery), is under the timer that aborts it.
C8_RequestUnderTimer == fpc \in {"connect", "body"} => timerArmed

\* C9: the sequence buildEquitySeries returns is strictly ascending by date
\* (so holds one point per date at most) and every point has equity > 0.
C9_SeriesAscendingPositive ==
    epc = "built" =>
        /\ \A i, j \in DOMAIN series : i < j => DateBefore(series[i].date, series[j].date)
        /\ \A i \in DOMAIN series : ~series[i].equity.nan /\ series[i].equity.n > 0

\* C9's case: three snapshots, the first later than the second, one of them
\* dropped for its equity
C9_Witness ==
    /\ epc = "built"
    /\ Len(snaps) = 3
    /\ Len(series) = 2
    /\ DateBefore(Row(snaps[2]).date, Row(snaps[1]).date)
    /\ \E i \in DOMAIN snaps : ~Positive(Row(snaps[i]).equity)

\* C10: the output point of a date is the row of the last snapshot of the
\* input that maps to that date and has positive equity.
C10_LastSnapshotWins ==
    epc = "built" =>
        \A k \in DOMAIN series :
            LET same == {i \in DOMAIN snaps :
                            /\ Row(snaps[i]).date = series[k].date
                            /\ Row(snaps[i]).equity.n > 0
                            /\ ~Row(snaps[i]).equity.nan}
            IN  /\ same # {}
                /\ series[k] = Row(snaps[CHOOSE i \in same : \A j \in same : j <= i])

\* C10's case: two snapshots of one date (different instants), equity 2 then 1
C10_Witness ==
    /\ epc = "built"
    /\ Len(snaps) = 3
    /\ snaps[1].as_of_utc # snaps[3].as_of_utc
    /\ Row(snaps[1]).date = Row(snaps[3]).date
    /\ Row(snaps[1]).equity = Num(2)
    /\ Row(snaps[3]).equity = Num(1)
    /\ \E k \in DOMAIN series : series[k] = Row(snaps[3])

\* C11: for a non-empty series of positive equities every drawdown is <= 0,
\* is 0 exactly at the indices where the wealth index is at its running peak,
\* stats.max_drawdown is the least drawdown, and the date recorded with it is
\* that of the first index where the least drawdown occurs.
C11_DrawdownLaw ==
    (ppc = "computed" /\ pseries # <<>>) =>
        LET dd(i) == perf.drawdown[i].dd
            v(i)  == perf.vami[i].v
            least == {i \in DOMAIN perf.drawdown :
                        \A j \in DOMAIN perf.drawdown : ~FLess(dd(j), dd(i))}
            first == CHOOSE i \in least : \A j \in least : i <= j
        IN  /\ DOMAIN perf.drawdown = DOMAIN pseries
            /\ \A i \in DOMAIN perf.drawdown :
                    /\ dd(i).num <= 0
                    /\ dd(i).num = 0 <=> \A j \in 1..i : ~FLess(v(i), v(j))
            /\ perf.stats.max_drawdown = dd(first)
            /\ perf.maxDD.dd = dd(first)
            /\ perf.maxDD.date = perf.drawdown[first].date

\* C11's case: the least drawdown is negative and occurs at two indices of
\* different dates; the earlier one's date is recorded
C11_Witness ==
    /\ ppc = "computed"
    /\ pseries # <<>>
    /\ perf.stats.max_drawdown.num < 0
    /\ \E i, j \in DOMAIN perf.drawdown :
            /\ i < j
            /\ perf.drawdown[i].dd = perf.stats.max_drawdown
            /\ perf.drawdown[j].dd = perf.stats.max_drawdown
            /\ perf.drawdown[i].date # perf.drawdown[j].date
            /\ perf.maxDD.date = perf.drawdown[i].date

\* C12: a snapshot loadSnapshot returns has verified = true only if the
\* registry digest is non-zero and equals the raw digest of the bytes whose
\* parsed payload is returned, or the registry digest is all-zero and the
\* payload's embedded digest equals its raw or its canonical digest; whatever
\* failures and retries came before.
C12_VerifiedIsSound ==
    (lpc = "returned" /\ loaded.kind = "snapshot" /\ loaded.verified) =>
        /\ loaded.sha256File = desc.sha256File
        /\ IF desc.sha256File # ZeroRegistryDigest
           THEN SameDigest(loaded.json.fileHash, desc.sha256File)
           ELSE /\ Truthy(loaded.json.sha256)
                /\ loaded.json.sha256 # NonString
                /\ toLowerCase(loaded.json.sha256)
                        \in {loaded.json.fileHash, loaded.json.canonicalHash}

\* C12's case: a verified snapshot under a non-zero registry digest, returned
\* by the second mirror of the third attempt after an attempt that threw
C12_Witness ==
    /\ lpc = "returned"
    /\ loaded.kind = "snapshot"
    /\ loaded.verified
    /\ desc.sha256File # ZeroRegistryDigest
    /\ attempt = 3
    /\ mirror = 2
    /\ \E i \in DOMAIN attemptLog : attemptLog[i] = "threw"
    /\ loaded.json.canonicalHash # loaded.json.fileHash

\* C13: a payload that cannot be parsed is a failure of its mirror: the error
\* is kept as the last failure, the next mirror in order is requested and its
\* parseable response is the result; the format error reaches the caller only
\* as the failure of the last mirror.
C13_ParseFailureIsMirrorFailure ==
    /\ [](delivered.kind = "garbage" =>
            /\ fpc \in {"next", "threw", "idle"}
            /\ fpc = "next" =>
                /\ fLastErr = Err("syntax", mirror - 1)
                /\ callLog[Len(callLog)] = mirror - 1
                /\ lpc = "fetching"
            /\ fpc = "threw" => fres.err = Err("syntax", 3))
    /\ []((fpc = "threw" /\ fres.err.kind = "syntax") =>
            /\ fres.err.at = 3
            /\ delivered.kind = "garbage")
    /\ [][(fpc = "next" /\ fLastErr.kind = "syntax" /\ mirror <= 3) =>
            /\ fpc' = "connect"
            /\ requests' = Append(requests, [attempt |-> attempt, mirror |-> fLastErr.at + 1,
                                             url |-> gateways(Pointer)[fLastErr.at + 1]])]_vars
    /\ [][(fpc = "body" /\ fLastErr.kind = "syntax" /\ fpc' = "returned") =>
            /\ fres'.kind = "result"
            /\ fres'.r.json = delivered'
            /\ fres'.r.url = gateways(Pointer)[fLastErr.at + 1]]_vars

\* C13's case: the first mirror's payload did not parse and the second mirror
\* has been requested
C13_Witness ==
    /\ fpc = "connect"
    /\ mirror = 2
    /\ fLastErr = Err("syntax", 1)
    /\ requests[Len(requests)].mirror = 2

====
